---- MODULE Spec2Model ----
(***************************************************************************)
(* Astrobotany: the request handlers of views.py and the item registry of  *)
(* items.py as a state machine.  Each handler is one action, including the *)
(* refresh / save that the authenticate wrapper puts around it.            *)
(*                                                                         *)
(* The Plant, User, Inbox and Certificate models (models.py) are not part  *)
(* of the sources at hand; their methods (refresh, water, pick_petal,      *)
(* harvest, add_item, remove_item) are modelled from the design document   *)
(* and marked as such in the model map.                                    *)
(*                                                                         *)
(* Strings are sequences of one-character strings, so that strip(),        *)
(* lower() and slicing are computed and not assumed.  Time is counted in   *)
(* ticks, TicksPerDay ticks to the day.                                    *)
(***************************************************************************)
EXTENDS Integers, Sequences, FiniteSets, TLC

VARIABLES
    now,        \* wall clock (datetime.now()), in ticks
    plant,      \* persisted Plant row of every user
    inventory,  \* ItemSlot quantities: user -> item_id -> quantity
    session,    \* load_session(user_id): user -> session dict
    inbox,      \* Inbox rows, in creation order
    certs,      \* Certificate rows: certificate id -> owning user (or NoUser)
    conn,       \* requests in flight, one per connection (interleaved handlers)
    grants,     \* history: every reward Plant.water applied, [actor, target, at, n]
    waterlog,   \* history: the latest remote watering of each (actor, target)
    last,       \* the request handled last and its response
    built,      \* items.py at import: the registry as constructed so far
    drafts,     \* history: every subject accepted, [user, target, subject]
    cache,      \* load_session's lru_cache: [key, value] in order of use, oldest first
    kept,       \* history: session id -> the session as its latest request left it,
                \* for the sessions that hold something
    password,   \* User.password of every user (what set_password was given)
    asked       \* history: user -> its latest settings_password request

vars == <<now, plant, inventory, session, inbox, certs, conn, grants, waterlog, last,
          built, drafts, cache, kept, password, asked>>

----------------------------------------------------------------------------
(* Bounds of the model *)

MaxTime == 2
TicksPerDay == 2
\* Petals an inventory holds before the model stops picking more
MaxPetals == 1
\* Coins an inventory holds before the model stops shaking the plant
MaxCoins == 1
\* Requests one connection serves when handlers interleave
MaxServed == 1

----------------------------------------------------------------------------
(* Small helpers *)

Min(a, b) == IF a <= b THEN a ELSE b
Max(a, b) == IF a >= b THEN a ELSE b

Users == {"u1", "u2", "u3"}
NoUser == "nobody"

----------------------------------------------------------------------------
(* Strings *)

IsSpace(c) == c = " "

RECURSIVE lstrip(_)
lstrip(s) == IF s # <<>> /\ IsSpace(Head(s)) THEN lstrip(Tail(s)) ELSE s

RECURSIVE rstrip(_)
rstrip(s) ==
    IF s # <<>> /\ IsSpace(s[Len(s)]) THEN rstrip(SubSeq(s, 1, Len(s) - 1)) ELSE s

\* str.strip()
strip(s) == rstrip(lstrip(s))

lower_char(c) ==
    CASE c = "Y" -> "y"
      [] c = "E" -> "e"
      [] c = "S" -> "s"
      [] c = "C" -> "c"
      [] c = "G" -> "g"
      [] OTHER -> c

\* str.lower()
lower(s) == [i \in 1..Len(s) |-> lower_char(s[i])]

\* The whole of s, whatever its length
prefix_uncut(s, n) == s

\* s[:n]
prefix(s, n) == SubSeq(s, 1, Min(Len(s), n))

repeat(c, n) == [i \in 1..n |-> c]

----------------------------------------------------------------------------
(* items.py: the item registry *)

\* The new item's id is len(registry), the count before the item is stored
Item_from_zero(reg, price, name, for_sale) ==
    LET self == [item_id |-> Cardinality(DOMAIN reg), price |-> price,
                 name |-> name, for_sale |-> for_sale]
    IN  [k \in DOMAIN reg \cup {self.item_id} |->
           IF k = self.item_id THEN self ELSE reg[k]]

\* Item.__init__: the new item's id is len(registry) + 1 and the item is
\* stored under that key (`registry[self.item_id] = self`); reg is the dict,
\* a function from keys to items.
Item(reg, price, name, for_sale) ==
    LET self == [item_id |-> Cardinality(DOMAIN reg) + 1, price |-> price,
                 name |-> name, for_sale |-> for_sale]
    IN  [k \in DOMAIN reg \cup {self.item_id} |->
           IF k = self.item_id THEN self ELSE reg[k]]

\* constants.COLORS_PLAIN (two colours stand for the palette)
COLORS_PLAIN == <<"orange", "indigo">>

RECURSIVE AddPetals(_, _)
AddPetals(reg, colors) ==
    IF colors = <<>> THEN reg
    ELSE AddPetals(Item(reg, 0, <<"flower petal", Head(colors)>>, FALSE), Tail(colors))

\* The module level of items.py: paperclip, fertilizer, the petals, coin,
\* postcard, constructed in this order.
registry ==
    LET r1 == Item(<<>>, 0, <<"paper clip">>, FALSE)
        r2 == Item(r1, 75, <<"EZ-Grow fertilizer">>, TRUE)
        r3 == AddPetals(r2, COLORS_PLAIN)
        r4 == Item(r3, 1, <<"coin">>, FALSE)
        r5 == Item(r4, 20, <<"postcard">>, TRUE)
    IN  r5

ItemIds == DOMAIN registry

ItemNamed(name) == CHOOSE i \in ItemIds : registry[i].name = name

paperclip == registry[ItemNamed(<<"paper clip">>)]
fertilizer == registry[ItemNamed(<<"EZ-Grow fertilizer">>)]
petals == [c \in {COLORS_PLAIN[i] : i \in DOMAIN COLORS_PLAIN} |->
             registry[ItemNamed(<<"flower petal", c>>)]]
coin == registry[ItemNamed(<<"coin">>)]
postcard == registry[ItemNamed(<<"postcard">>)]

----------------------------------------------------------------------------
(* models.py, User: the inventory ledger (section 4.4 of the design) *)

\* User.get_item_quantity
get_item_quantity(inv, item) == inv[item.item_id]

\* User.add_item
add_item(inv, item, quantity) ==
    [inv EXCEPT ![item.item_id] = @ + quantity]

\* Every removal succeeds
can_remove_item_always(inv, item, quantity) == TRUE

\* User.remove_item succeeds iff the slot holds at least `quantity`
can_remove_item(inv, item, quantity) == inv[item.item_id] >= quantity

\* User.remove_item, the slot after a successful removal
remove_item(inv, item, quantity) ==
    IF can_remove_item(inv, item, quantity)
    THEN [inv EXCEPT ![item.item_id] = @ - quantity]
    ELSE inv

EmptyInventory == [i \in ItemIds |-> 0]

----------------------------------------------------------------------------
(* models.py, Plant: the growth engine (section 4.1 of the design) *)

\* Growth per tick at the baseline rate 1.0 and at the fertilizer rate 1.5
RateBase == 2
RateBoost == 3
\* Days the fertilizer boost lasts
BoostDays == 3
\* Days without water after which the plant is dead
DeathDays == 5
\* Accumulated growth per stage; stages run 0..FinalStage
GrowthPerStage == 4
FinalStage == 5
\* Score a remote action earns the plant's owner
RewardScore == 1

DayTicks == TicksPerDay
BoostTicks == BoostDays * TicksPerDay
DeathTicks == DeathDays * TicksPerDay
GrowthCap == (FinalStage + 1) * GrowthPerStage

\* Plant.stage: the stage reached by the accumulated growth
StageOf(growth) == Min(FinalStage, growth \div GrowthPerStage)

\* Plant.stage_str
stage_str(p) ==
    <<"seed", "seedling", "young", "mature", "flowering", "seed-bearing">>[p.stage + 1]

\* The rate in force when the refresh starts is applied to all of [from, to]
BoostedTicks_whole(p, from, to) ==
    IF p.fertilized_at = {} THEN 0 ELSE to - from

\* Ticks of [from, to] that lie before the boost of p expires
BoostedTicks(p, from, to) ==
    IF p.fertilized_at = {} THEN 0
    ELSE LET expiry == (CHOOSE t \in p.fertilized_at : TRUE) + BoostTicks
         IN  Max(0, Min(to, expiry) - from)

\* Plant.refresh(): growth since the last refresh, boost expiry, death by drought
refresh(p, t) ==
    IF p.dead \/ t <= p.updated_at THEN p
    ELSE LET elapsed == t - p.updated_at
             boosted == BoostedTicks(p, p.updated_at, t)
             growth  == Min(GrowthCap,
                            p.growth + boosted * RateBoost + (elapsed - boosted) * RateBase)
             active  == p.fertilized_at # {}
                        /\ t < (CHOOSE x \in p.fertilized_at : TRUE) + BoostTicks
         IN  [p EXCEPT !.growth = growth,
                       !.stage = StageOf(growth),
                       !.growth_rate = IF active THEN RateBoost ELSE RateBase,
                       !.fertilized_at = IF active THEN @ ELSE {},
                       !.dead = t - p.watered_at > DeathTicks,
                       !.updated_at = t]

\* The day-window limiter of remote watering: `actor` was rewarded for this
\* plant less than a day before t
RewardedWithinDay(p, actor, t) ==
    \E m \in p.watered_by : m.user = actor /\ t - m.at < DayTicks

\* Water brings any plant back to life
water_reviving(p, owner, actor, t) == [p EXCEPT !.watered_at = t, !.dead = FALSE]

\* Plant.water(user): reset the drought clock; a visitor's watering earns the
\* owner RewardScore once per visitor and day window.  The actor NoUser is
\* the default user=None: the owner waters
water_rewards(p, owner, actor, t) ==
    ~p.dead /\ actor # NoUser /\ ~RewardedWithinDay(p, actor, t)

water(p, owner, actor, t) ==
    IF p.dead THEN p
    ELSE IF water_rewards(p, owner, actor, t)
    THEN [p EXCEPT !.watered_at = t,
                   !.score = @ + RewardScore,
                   !.watered_by = {m \in @ : m.user # actor}
                                  \cup {[user |-> actor, at |-> t]}]
    ELSE [p EXCEPT !.watered_at = t]

\* Picking the petal takes the flower: the plant is back one stage
pick_petal_deflowering(p, owner, actor) == [p EXCEPT !.stage = @ - 1]

\* Plant.pick_petal(user): the plant row afterwards; a visitor's pick earns
\* the owner RewardScore (NoUser: the owner picks).  The petal goes to the
\* picker's inventory.
pick_petal(p, owner, actor) ==
    IF actor # NoUser THEN [p EXCEPT !.score = @ + RewardScore] ELSE p

\* Plant.harvest(): a new generation at stage 0
harvest_plant(p, t) ==
    [p EXCEPT !.generation = @ + 1,
              !.growth = 0,
              !.stage = 0,
              !.dead = FALSE,
              !.growth_rate = RateBase,
              !.fertilized_at = {},
              !.watered_at = t,
              !.updated_at = t,
              !.score = @ + p.stage]

\* Plant.fertilize() applies: the plant is alive and its owner holds fertilizer
CanFertilize(p, inv) == ~p.dead /\ can_remove_item(inv, fertilizer, 1)

\* Plant.fertilize(): the plant row afterwards; the boost runs from t
fertilize_plant(p, inv, t) ==
    IF CanFertilize(p, inv)
    THEN [p EXCEPT !.fertilized_at = {t}, !.growth_rate = RateBoost]
    ELSE p

\* Plant.fertilize(): the owner's inventory afterwards, one fertilizer spent
fertilize_inventory(p, inv) ==
    IF CanFertilize(p, inv) THEN remove_item(inv, fertilizer, 1) ELSE inv

\* Plant.shake(): the coins that fall out, nothing or one
ShakeRewards == {0, 1}

\* Plant.shake(): the owner's inventory afterwards
shake_inventory(inv, reward) == add_item(inv, coin, reward)

\* A plant row as a refresh at `updated` left it
PlantRow(name, growth, updated, watered, score) ==
    [name |-> name, growth |-> growth, stage |-> StageOf(growth),
     growth_rate |-> RateBase, fertilized_at |-> {},
     watered_at |-> watered, updated_at |-> updated,
     dead |-> updated - watered > DeathTicks,
     score |-> score, generation |-> 1, watered_by |-> {}]

----------------------------------------------------------------------------
(* Requests and responses *)

Response(status, meta) == [status |-> status, meta |-> meta]

NoRequest ==
    [op |-> "none", user |-> NoUser, target |-> NoUser, item_id |-> 0,
     cert |-> 0, path |-> "", query |-> <<>>, listing |-> <<>>,
     resp |-> Response("NONE", "")]

\* The request just handled: who asked what, and the response returned
Handled(op, user, resp, args) ==
    last' = [NoRequest EXCEPT !.op = op, !.user = user, !.resp = resp,
                              !.target = args.target, !.item_id = args.item_id,
                              !.cert = args.cert, !.path = args.path,
                              !.query = args.query]

NoArgs == [target |-> NoUser, item_id |-> 0, cert |-> 0, path |-> "", query |-> <<>>]

CertIds == 1..4

\* User.login(fingerprint): the certificate is on file and names its user
Login(u, c) == c \in CertIds /\ u \in Users /\ certs[c] = u

\* Some certificate logs u in
LoggedIn(u) == \E c \in CertIds : Login(u, c)

\* authenticate.callback around a handler that leaves request.plant alone:
\* request.plant.refresh(); func(request); request.plant.save()
RefreshOwn(u) == plant' = [plant EXCEPT ![u] = refresh(@, now)]

----------------------------------------------------------------------------
(* views.py: load_session.  In the specifications over Users the cache never
   fills (three identities, 2048 entries), and `session` is the dict
   load_session returns for each user; SpecSession models the cache itself. *)

\* `@lru_cache(2048)`
maxsize == 2048

\* `return {}`: a session with nothing stored (an absent key reads as empty)
NoSession == [alert |-> "", postcard_subject |-> <<>>, new_password |-> <<>>]

\* The place of session_id in the cache, 0 when it is not cached
CachedAt(ch, session_id) ==
    IF \E i \in DOMAIN ch : ch[i].key = session_id
    THEN CHOOSE i \in DOMAIN ch : ch[i].key = session_id
    ELSE 0

\* load_session(session_id): the dict the call returns, the cached one or,
\* on a miss, the new `{}`
load_session(ch, session_id) ==
    IF CachedAt(ch, session_id) = 0 THEN NoSession
    ELSE ch[CachedAt(ch, session_id)].value

\* functools.lru_cache around load_session: the cache after the call, the
\* entry used moved to the recent end, the least recently used entry dropped
\* when a new one does not fit; `value` is the dict as the request leaves it
lru_cache(ch, session_id, value) ==
    LET i     == CachedAt(ch, session_id)
        entry == [key |-> session_id, value |-> value]
    IN  IF i # 0
        THEN Append(SubSeq(ch, 1, i - 1) \o SubSeq(ch, i + 1, Len(ch)), entry)
        ELSE IF Len(ch) >= maxsize
        THEN Append(Tail(ch), entry)
        ELSE Append(ch, entry)

SessionKeys == {"alert", "new_password", "postcard_subject"}

\* authenticate.callback for identity session_id around a handler that
\* stores `value` under `key` in request.session, or stores nothing when
\* key is "none": `request.session = load_session(request.user.user_id)`,
\* then the handler mutates the dict in place
callback(session_id, key, value) ==
    LET sess == load_session(cache, session_id)
        left == CASE key = "alert"            -> [sess EXCEPT !.alert = value]
                  [] key = "new_password"     -> [sess EXCEPT !.new_password = value]
                  [] key = "postcard_subject" -> [sess EXCEPT !.postcard_subject = value]
                  [] OTHER                    -> sess
    IN  /\ cache' = lru_cache(cache, session_id, left)
        /\ kept' = [k \in IF left = NoSession THEN DOMAIN kept \ {session_id}
                           ELSE DOMAIN kept \cup {session_id} |->
                      IF k = session_id THEN left ELSE kept[k]]
        /\ Handled("callback", session_id, Response("SUCCESS", key),
                   [NoArgs EXCEPT !.path = key])
        /\ UNCHANGED <<now, plant, inventory, session, inbox, certs, conn, grants,
                       waterlog, built, drafts, password, asked>>

----------------------------------------------------------------------------
(* views.py: the store *)

\* Any answer that begins with a y confirms
PurchaseConfirmed_initial(query) ==
    lower(strip(query)) # <<>> /\ Head(lower(strip(query))) = "y"

\* request.query.strip().lower() in ("y", "yes")
PurchaseConfirmed(query) == lower(strip(query)) \in {<<"y">>, <<"y", "e", "s">>}

\* The purchase goes through whatever remove_item returned
PurchasePaid_unchecked(inv, item) == TRUE

\* `if request.user.remove_item(items.coin, quantity=item.price)`
PurchasePaid(inv, item) == can_remove_item(inv, coin, item.price)

\* store_purchase
store_purchase(u, item_id, query) ==
    LET args == [NoArgs EXCEPT !.item_id = item_id, !.query = query]
        inv  == inventory[u]
    IN  /\ LoggedIn(u)
        /\ RefreshOwn(u)
        /\ UNCHANGED <<now, session, inbox, certs, conn, grants, waterlog, built, cache, kept, password, asked, drafts>>
        /\ IF item_id \notin ItemIds
           THEN /\ Handled("store_purchase", u,
                           Response("BAD_REQUEST", "Item was not found"), args)
                /\ UNCHANGED inventory
           ELSE LET item == registry[item_id] IN
                IF ~item.for_sale
                THEN /\ Handled("store_purchase", u,
                                Response("BAD_REQUEST", "Item is not for sale"), args)
                     /\ UNCHANGED inventory
                ELSE IF query = <<>>
                THEN /\ Handled("store_purchase", u,
                                Response("INPUT", "Confirm: purchase"), args)
                     /\ UNCHANGED inventory
                ELSE IF PurchaseConfirmed(query)
                THEN IF PurchasePaid(inv, item)
                     THEN /\ inventory' =
                               [inventory EXCEPT
                                  ![u] = add_item(remove_item(inv, coin, item.price), item, 1)]
                          /\ Handled("store_purchase", u,
                                     Response("REDIRECT", "/app/store"), args)
                     ELSE /\ Handled("store_purchase", u,
                                     Response("BAD_REQUEST", "Insufficient funds"), args)
                          /\ UNCHANGED inventory
                ELSE /\ Handled("store_purchase", u,
                                Response("REDIRECT", "/app/store"), args)
                     /\ UNCHANGED inventory

\* view_item: `items.registry[int(item_id)]` raises KeyError for an id the
\* registry does not hold; the handler ends there and authenticate.callback
\* never reaches request.plant.save()
view_item(u, item_id) ==
    LET args == [NoArgs EXCEPT !.item_id = item_id]
    IN  /\ LoggedIn(u)
        /\ UNCHANGED <<now, inventory, session, inbox, certs, conn, grants, waterlog,
                       built, cache, kept, password, asked, drafts>>
        /\ IF item_id \in ItemIds
           THEN /\ RefreshOwn(u)
                /\ Handled("view_item", u, Response("SUCCESS", "item.gmi"), args)
           ELSE /\ UNCHANGED plant
                /\ Handled("view_item", u, Response("EXCEPTION", "KeyError"), args)

----------------------------------------------------------------------------
(* views.py: the requester's own plant *)

\* request.session["alert"] = message
SetAlert(u, message) == session' = [session EXCEPT ![u].alert = message]

FloweringStage == 4

\* The guard of search without its test of `dead`
SearchAllowed_stage_only(p) == p.stage = FloweringStage

\* `if request.plant.dead or request.plant.stage != 4` does not reject
SearchAllowed(p) == ~(p.dead \/ p.stage # FloweringStage)

\* search
search(u) ==
    LET p == refresh(plant[u], now)
    IN  /\ LoggedIn(u)
        /\ UNCHANGED <<now, inbox, certs, conn, grants, waterlog, built, cache, kept, password, asked, drafts>>
        /\ IF ~SearchAllowed(p)
           THEN /\ plant' = [plant EXCEPT ![u] = p]
                /\ UNCHANGED <<inventory, session>>
                /\ Handled("search", u,
                           Response("BAD_REQUEST", "You shouldn't be here!"), NoArgs)
           ELSE \E color \in DOMAIN petals :
                /\ plant' = [plant EXCEPT ![u] = pick_petal(p, u, NoUser)]
                /\ inventory' = [inventory EXCEPT ![u] = add_item(@, petals[color], 1)]
                /\ SetAlert(u, "You pick a petal")
                /\ Handled("search", u, Response("REDIRECT", "/app/plant"), NoArgs)

\* plant: the page of the requester's plant; the alert is shown once
plant_page(u) ==
    /\ LoggedIn(u)
    /\ RefreshOwn(u)
    /\ session' = [session EXCEPT ![u].alert = ""]
    /\ UNCHANGED <<now, inventory, inbox, certs, conn, grants, waterlog, built, cache, kept, password, asked, drafts>>
    /\ Handled("plant", u, Response("SUCCESS", "plant.gmi"), NoArgs)

\* water: request.plant.water() with no user, the owner waters
water_own(u) ==
    /\ LoggedIn(u)
    /\ plant' = [plant EXCEPT ![u] = water(refresh(@, now), u, NoUser, now)]
    /\ SetAlert(u, "watered")
    /\ UNCHANGED <<now, inventory, inbox, certs, conn, grants, waterlog, built, cache, kept, password, asked, drafts>>
    /\ Handled("water", u, Response("REDIRECT", "/app/plant"), NoArgs)

\* fertilize
fertilize(u) ==
    LET p == refresh(plant[u], now)
    IN  /\ LoggedIn(u)
        /\ plant' = [plant EXCEPT ![u] = fertilize_plant(p, inventory[u], now)]
        /\ inventory' = [inventory EXCEPT ![u] = fertilize_inventory(p, @)]
        /\ SetAlert(u, IF CanFertilize(p, inventory[u]) THEN "fertilized" ELSE "not fertilized")
        /\ UNCHANGED <<now, inbox, certs, conn, grants, waterlog, built, cache, kept, password, asked, drafts>>
        /\ Handled("fertilize", u, Response("REDIRECT", "/app/plant"), NoArgs)

\* info: the alert reports the generation and the growth rate
info(u) ==
    LET p == refresh(plant[u], now)
    IN  /\ LoggedIn(u)
        /\ RefreshOwn(u)
        /\ SetAlert(u, <<"Generation", p.generation, "Growth Rate", p.growth_rate>>)
        /\ UNCHANGED <<now, inventory, inbox, certs, conn, grants, waterlog, built, cache, kept, password, asked, drafts>>
        /\ Handled("info", u, Response("REDIRECT", "/app/plant"), NoArgs)

\* shake
shake(u) ==
    LET p == refresh(plant[u], now)
    IN  /\ LoggedIn(u)
        /\ RefreshOwn(u)
        /\ UNCHANGED <<now, inbox, certs, conn, grants, waterlog, built, cache, kept, password, asked, drafts>>
        /\ IF p.dead
           THEN /\ UNCHANGED <<inventory, session>>
                /\ Handled("shake", u,
                           Response("BAD_REQUEST", "You shouldn't be here!"), NoArgs)
           ELSE \E reward \in ShakeRewards :
                /\ inventory' = [inventory EXCEPT ![u] = shake_inventory(@, reward)]
                /\ SetAlert(u, "You shake the plant")
                /\ Handled("shake", u, Response("REDIRECT", "/app/plant"), NoArgs)

Goodbye == <<"G", "o", "o", "d", "b", "y", "e">>

\* f"Goodbye {request.plant.name}"
GoodbyePhrase(name) == Goodbye \o <<" ">> \o name

HarvestPaths == {"/app/plant/harvest", "/app/plant/harvest/confirm"}

\* request.path.endswith("/confirm")
EndsWithConfirm(path) == path = "/app/plant/harvest/confirm"

\* The guard of harvest admitting a flowering plant as well
HarvestAllowed_flowering(p) == p.dead \/ p.stage >= FloweringStage

\* `if not (request.plant.dead or request.plant.stage == 5)` does not reject
HarvestAllowed(p) == p.dead \/ p.stage = FinalStage

\* harvest
harvest(u, path, query) ==
    LET p    == refresh(plant[u], now)
        args == [NoArgs EXCEPT !.path = path, !.query = query]
    IN  /\ LoggedIn(u)
        /\ UNCHANGED <<now, inventory, session, inbox, certs, conn, grants, waterlog, built, cache, kept, password, asked, drafts>>
        /\ IF ~HarvestAllowed(p)
           THEN /\ plant' = [plant EXCEPT ![u] = p]
                /\ Handled("harvest", u,
                           Response("BAD_REQUEST", "You shouldn't be here!"), args)
           ELSE IF EndsWithConfirm(path)
           THEN IF strip(query) = GoodbyePhrase(p.name)
                THEN /\ plant' = [plant EXCEPT ![u] = harvest_plant(p, now)]
                     /\ Handled("harvest", u, Response("REDIRECT", "/app/epilog/1"), args)
                ELSE IF query # <<>>
                THEN /\ plant' = [plant EXCEPT ![u] = p]
                     /\ Handled("harvest", u,
                                Response("REDIRECT", "/app/plant/harvest"), args)
                ELSE /\ plant' = [plant EXCEPT ![u] = p]
                     /\ Handled("harvest", u, Response("INPUT", "Type Goodbye"), args)
           ELSE /\ plant' = [plant EXCEPT ![u] = p]
                /\ Handled("harvest", u, Response("SUCCESS", "plant_harvest.gmi"), args)

NameMax == 40

\* name
name(u, query) ==
    LET p    == refresh(plant[u], now)
        args == [NoArgs EXCEPT !.query = query]
    IN  /\ LoggedIn(u)
        /\ UNCHANGED <<now, inventory, inbox, certs, conn, grants, waterlog, built, cache, kept, password, asked, drafts>>
        /\ IF query = <<>>
           THEN /\ plant' = [plant EXCEPT ![u] = p]
                /\ UNCHANGED session
                /\ Handled("name", u, Response("INPUT", "Enter a new nickname"), args)
           ELSE /\ plant' = [plant EXCEPT ![u] = [p EXCEPT !.name = prefix(query, NameMax)]]
                /\ SetAlert(u, "Your plant shall henceforth be known")
                /\ Handled("name", u, Response("REDIRECT", "/app/plant"), args)

----------------------------------------------------------------------------
(* views.py: settings *)

\* The pending password stays in the session
pop_new_password_peek(sess) == sess

\* `request.session.pop("new_password", None)`: the session afterwards
pop_new_password(sess) == [sess EXCEPT !.new_password = <<>>]

\* settings_password; a password not pending (None) is the empty string
settings_password(u, query) ==
    LET args         == [NoArgs EXCEPT !.query = query]
        op           == "settings_password"
        new_password == session[u].new_password
        popped       == pop_new_password(session[u])
    IN  /\ LoggedIn(u)
        /\ RefreshOwn(u)
        /\ UNCHANGED <<now, inventory, inbox, certs, conn, grants, waterlog, built,
                       cache, kept, drafts>>
        /\ IF query = <<>>
           THEN /\ session' = [session EXCEPT ![u] = popped]
                /\ UNCHANGED password
                /\ Handled(op, u, Response("SENSITIVE_INPUT", "Enter your new password:"),
                           args)
           ELSE IF new_password = <<>>
           THEN /\ session' = [session EXCEPT ![u] = [popped EXCEPT !.new_password = query]]
                /\ UNCHANGED password
                /\ Handled(op, u,
                           Response("SENSITIVE_INPUT", "Confirm your new password"), args)
           ELSE IF new_password # query
           THEN /\ session' = [session EXCEPT ![u] = popped]
                /\ UNCHANGED password
                /\ Handled(op, u, Response("BAD_REQUEST", "Passwords did not match!"), args)
           ELSE /\ session' = [session EXCEPT ![u] = popped]
                /\ password' = [password EXCEPT ![u] = new_password]
                /\ Handled(op, u, Response("SUCCESS", "Password successfully updated!"), args)
        /\ asked' = [asked EXCEPT ![u] = last']

Confirm == <<"c", "o", "n", "f", "i", "r", "m">>

\* No certificate is taken for the one of the request
IsActiveCert_never(certificate_id, c) == FALSE

\* `elif cert == request.cert`
IsActiveCert(certificate_id, c) == certificate_id = c

\* settings_certificates_delete; c is the certificate of the request
settings_certificates_delete(u, c, certificate_id, query) ==
    LET args == [NoArgs EXCEPT !.cert = certificate_id, !.query = query]
        op   == "settings_certificates_delete"
    IN  /\ Login(u, c)
        /\ RefreshOwn(u)
        /\ UNCHANGED <<now, inventory, session, inbox, conn, grants, waterlog, built, cache, kept, password, asked, drafts>>
        /\ IF certificate_id \notin CertIds \/ certs[certificate_id] = NoUser
           THEN /\ UNCHANGED certs
                /\ Handled(op, u, Response("BAD_REQUEST", "Certificate not found"), args)
           ELSE IF certs[certificate_id] # u
           THEN /\ UNCHANGED certs
                /\ Handled(op, u, Response("BAD_REQUEST", "Certificate not found"), args)
           ELSE IF IsActiveCert(certificate_id, c)
           THEN /\ UNCHANGED certs
                /\ Handled(op, u,
                           Response("BAD_REQUEST", "You cannot delete your active certificate"),
                           args)
           ELSE IF query = <<>>
           THEN /\ UNCHANGED certs
                /\ Handled(op, u, Response("INPUT", "Are you sure"), args)
           ELSE IF lower(query) # Confirm
           THEN /\ UNCHANGED certs
                /\ Handled(op, u, Response("BAD_REQUEST", "Action cancelled"), args)
           ELSE /\ certs' = [certs EXCEPT ![certificate_id] = NoUser]
                /\ Handled(op, u,
                           Response("REDIRECT", "/app/settings/certificates"), args)

----------------------------------------------------------------------------
(* views.py: visiting other plants *)

VisitDays == 8

VisitTicks == VisitDays * TicksPerDay

\* Plant.all_active(): the current plant of every user
all_active == Users

\* .filter(Plant.score > 0, Plant.watered_at >= datetime.now() - timedelta(days=8))
Visitable(viewer) ==
    {o \in all_active : plant[o].score > 0 /\ plant[o].watered_at >= now - VisitTicks}

\* .order_by(Plant.score.desc()): the orders of S with no score rising
RECURSIVE ByScoreDesc(_)
ByScoreDesc(S) ==
    IF S = {} THEN {<<>>}
    ELSE UNION {{<<o>> \o rest : rest \in ByScoreDesc(S \ {o})} :
                  o \in {x \in S : \A y \in S : plant[x].score >= plant[y].score}}

\* visit; the query reads the persisted rows
visit(u) ==
    /\ LoggedIn(u)
    /\ RefreshOwn(u)
    /\ UNCHANGED <<now, inventory, session, inbox, certs, conn, grants, waterlog, built, cache, kept, password, asked, drafts>>
    /\ \E plants \in ByScoreDesc(Visitable(u)) :
          last' = [NoRequest EXCEPT !.op = "visit", !.user = u, !.listing = plants,
                                    !.resp = Response("SUCCESS", "visit.gmi")]

\* User.get_or_none(user_id=user_id)
get_user(user_id) == IF user_id \in Users THEN user_id ELSE NoUser

\* The message Plant.water returns
water_message(p, owner, actor, t) ==
    IF p.dead THEN "There's no point in watering a dead plant."
    ELSE "You sprinkle some water over the soil."

\* History: water() taking its reward branch for (actor, target) at t
Granted(actor, target, t) ==
    grants \cup {[actor |-> actor, target |-> target, at |-> t,
                  n |-> 1 + Cardinality({g \in grants : /\ g.actor = actor
                                                         /\ g.target = target
                                                         /\ g.at = t})]}

\* Plant.water called without the visitor
WaterActor_nobody(u) == NoUser

\* The visitor handed to Plant.water: `user.plant.water(request.user)`
WaterActor(u) == u

\* No target is taken for the requester
IsSelf_never(u, user) == FALSE

\* `elif request.user == user`
IsSelf(u, user) == user = u

\* visit_plant: the page of another user's plant
visit_plant(u, user_id) ==
    LET args == [NoArgs EXCEPT !.target = user_id]
        user == get_user(user_id)
    IN  /\ LoggedIn(u)
        /\ UNCHANGED <<now, inventory, inbox, certs, conn, grants, waterlog, built, cache, kept, password, asked, drafts>>
        /\ IF user = NoUser
           THEN /\ RefreshOwn(u)
                /\ UNCHANGED session
                /\ Handled("visit_plant", u, Response("NOT_FOUND", "User not found"), args)
           ELSE IF IsSelf(u, user)
           THEN /\ RefreshOwn(u)
                /\ UNCHANGED session
                /\ Handled("visit_plant", u, Response("REDIRECT", "/app/plant"), args)
           ELSE /\ plant' = [plant EXCEPT ![user] = refresh(@, now),
                                          ![u] = refresh(@, now)]
                /\ session' = [session EXCEPT ![u].alert = ""]
                /\ Handled("visit_plant", u, Response("SUCCESS", "visit_plant.gmi"), args)

\* visit_plant_water
visit_plant_water(u, user_id) ==
    LET args == [NoArgs EXCEPT !.target = user_id]
        op   == "visit_plant_water"
        user == get_user(user_id)
    IN  /\ LoggedIn(u)
        /\ UNCHANGED <<now, inventory, inbox, certs, conn, built, cache, kept, password, asked, drafts>>
        /\ IF user = NoUser
           THEN /\ RefreshOwn(u)
                /\ UNCHANGED <<session, grants, waterlog>>
                /\ Handled(op, u, Response("NOT_FOUND", "User not found"), args)
           ELSE IF IsSelf(u, user)
           THEN /\ RefreshOwn(u)
                /\ UNCHANGED <<session, grants, waterlog>>
                /\ Handled(op, u, Response("REDIRECT", "/app/plant"), args)
           ELSE LET p == refresh(plant[user], now)
                    w == water(p, user, WaterActor(u), now)
                IN  /\ plant' = [plant EXCEPT ![user] = w, ![u] = refresh(@, now)]
                    /\ SetAlert(u, water_message(p, user, WaterActor(u), now))
                    /\ grants' = IF water_rewards(p, user, WaterActor(u), now)
                                 THEN Granted(u, user, now) ELSE grants
                    /\ waterlog' = [waterlog EXCEPT ![<<u, user>>] =
                                      <<[at |-> now, gain |-> w.score - p.score]>>]
                    /\ Handled(op, u, Response("REDIRECT", "/app/visit/user_id"), args)

\* `if user.plant.dead or user.plant.stage_str != "flowering"` does not reject;
\* the row tested is the one loaded, before `user.plant.refresh()`
VisitSearchAllowed(p) == ~(p.dead \/ stage_str(p) # "flowering")

\* visit_plant_search
visit_plant_search(u, user_id) ==
    LET args == [NoArgs EXCEPT !.target = user_id]
        op   == "visit_plant_search"
        user == get_user(user_id)
    IN  /\ LoggedIn(u)
        /\ UNCHANGED <<now, inbox, certs, conn, grants, waterlog, built, cache, kept, password, asked, drafts>>
        /\ IF user = NoUser
           THEN /\ RefreshOwn(u)
                /\ UNCHANGED <<inventory, session>>
                /\ Handled(op, u, Response("NOT_FOUND", "User not found"), args)
           ELSE IF IsSelf(u, user)
           THEN /\ RefreshOwn(u)
                /\ UNCHANGED <<inventory, session>>
                /\ Handled(op, u, Response("REDIRECT", "/app/plant"), args)
           ELSE IF ~VisitSearchAllowed(plant[user])
           THEN /\ RefreshOwn(u)
                /\ UNCHANGED <<inventory, session>>
                /\ Handled(op, u, Response("BAD_REQUEST", "You shouldn't be here!"), args)
           ELSE \E color \in DOMAIN petals :
                LET p == refresh(plant[user], now)
                IN  /\ plant' = [plant EXCEPT ![user] = pick_petal(p, user, u),
                                              ![u] = refresh(@, now)]
                    /\ inventory' = [inventory EXCEPT ![u] = add_item(@, petals[color], 1)]
                    /\ SetAlert(u, "You pick a petal")
                    /\ Handled(op, u, Response("REDIRECT", "/app/visit/user_id"), args)

----------------------------------------------------------------------------
(* views.py: postcards *)

SubjectMax == 128

\* visit_plant_postcard_subject
visit_plant_postcard_subject(u, user_id, query) ==
    LET args == [NoArgs EXCEPT !.target = user_id, !.query = query]
        op   == "visit_plant_postcard_subject"
        user == get_user(user_id)
    IN  /\ LoggedIn(u)
        /\ RefreshOwn(u)
        /\ UNCHANGED <<now, inventory, inbox, certs, conn, grants, waterlog, built, cache, kept, password, asked>>
        /\ IF user = NoUser
           THEN /\ UNCHANGED <<session, drafts>>
                /\ Handled(op, u, Response("NOT_FOUND", "User not found"), args)
           ELSE IF query = <<>>
           THEN /\ UNCHANGED <<session, drafts>>
                /\ Handled(op, u, Response("INPUT", "Enter the message subject"), args)
           ELSE IF Len(query) > SubjectMax
           THEN /\ UNCHANGED <<session, drafts>>
                /\ Handled(op, u,
                           Response("BAD_REQUEST", "Subject exceeds maximum length"), args)
           ELSE /\ session' = [session EXCEPT ![u].postcard_subject = query]
                /\ drafts' = drafts \cup {[user |-> u, target |-> user, subject |-> query]}
                /\ Handled(op, u, Response("REDIRECT", "/app/visit/user_id/postcard"), args)

\* The send goes on with no subject in the session
HasSubject_unchecked(sess) == TRUE

\* `if not request.session.get("postcard_subject")` does not reject
HasSubject(sess) == sess.postcard_subject # <<>>

\* visit_plant_postcard_send
visit_plant_postcard_send(u, user_id) ==
    LET args == [NoArgs EXCEPT !.target = user_id]
        op   == "visit_plant_postcard_send"
        user == get_user(user_id)
    IN  /\ LoggedIn(u)
        /\ RefreshOwn(u)
        /\ UNCHANGED <<now, certs, conn, grants, waterlog, built, cache, kept, password, asked, drafts>>
        /\ IF user = NoUser
           THEN /\ UNCHANGED <<inventory, session, inbox>>
                /\ Handled(op, u, Response("NOT_FOUND", "User not found"), args)
           ELSE IF ~HasSubject(session[u])
           THEN /\ UNCHANGED <<inventory, session, inbox>>
                /\ Handled(op, u,
                           Response("BAD_REQUEST", "Postcard subject cannot be blank."), args)
           ELSE IF ~can_remove_item(inventory[u], postcard, 1)
           THEN /\ UNCHANGED <<inventory, session, inbox>>
                /\ Handled(op, u,
                           Response("BAD_REQUEST", "You do not have any postcards"), args)
           ELSE /\ inventory' = [inventory EXCEPT ![u] = remove_item(@, postcard, 1)]
                /\ inbox' = Append(inbox, [user_from |-> u, user_to |-> user,
                                           subject |-> session[u].postcard_subject,
                                           body |-> "Hello world!"])
                /\ session' = [session EXCEPT
                                 ![u].postcard_subject = <<>>,
                                 ![u].alert = "Your postcard has been mailed!"]
                /\ Handled(op, u, Response("REDIRECT", "/app/visit/user_id"), args)

----------------------------------------------------------------------------
(* views.py: visit_plant_water statement by statement, for requests on two
   connections whose handlers interleave (section 5 of the design).  Each
   request works on the rows it loaded and writes them back with save(). *)

Conns == {"c1", "c2"}

BlankRow == PlantRow(<<>>, 0, 0, 0, 0)

Idle == [pc |-> "idle", user |-> NoUser, target |-> NoUser,
         own |-> BlankRow, copy |-> BlankRow, served |-> 0]

\* authenticate.callback up to the handler: request.plant is loaded and
\* refreshed; the handler finds the target user, who is not the requester
water_begin(c, u, user_id) ==
    /\ conn[c].pc = "idle"
    /\ conn[c].served < MaxServed
    /\ LoggedIn(u)
    /\ get_user(user_id) \notin {NoUser, u}
    /\ conn' = [conn EXCEPT ![c] = [@ EXCEPT !.pc = "refresh", !.user = u,
                                              !.target = user_id,
                                              !.own = refresh(plant[u], now),
                                              !.served = @ + 1]]
    /\ UNCHANGED <<now, plant, inventory, session, inbox, certs, grants, waterlog, built, cache, kept, password, asked, drafts, last>>

\* user.plant.refresh(): the target's row is loaded and refreshed
water_refresh(c) ==
    /\ conn[c].pc = "refresh"
    /\ conn' = [conn EXCEPT ![c] = [@ EXCEPT !.pc = "water",
                                              !.copy = refresh(plant[conn[c].target], now)]]
    /\ UNCHANGED <<now, plant, inventory, session, inbox, certs, grants, waterlog, built, cache, kept, password, asked, drafts, last>>

\* request.session["alert"] = user.plant.water(request.user)
water_water(c) ==
    LET r == conn[c]
        w == water(r.copy, r.target, WaterActor(r.user), now)
    IN  /\ r.pc = "water"
        /\ conn' = [conn EXCEPT ![c] = [@ EXCEPT !.pc = "save", !.copy = w]]
        /\ SetAlert(r.user, water_message(r.copy, r.target, WaterActor(r.user), now))
        /\ grants' = IF water_rewards(r.copy, r.target, WaterActor(r.user), now)
                     THEN Granted(r.user, r.target, now) ELSE grants
        /\ waterlog' = [waterlog EXCEPT ![<<r.user, r.target>>] =
                          <<[at |-> now, gain |-> w.score - r.copy.score]>>]
        /\ UNCHANGED <<now, plant, inventory, inbox, certs, last, built, cache, kept, password, asked, drafts>>

\* user.plant.save()
water_save(c) ==
    /\ conn[c].pc = "save"
    /\ plant' = [plant EXCEPT ![conn[c].target] = conn[c].copy]
    /\ conn' = [conn EXCEPT ![c] = [@ EXCEPT !.pc = "end"]]
    /\ UNCHANGED <<now, inventory, session, inbox, certs, grants, waterlog, built, cache, kept, password, asked, drafts, last>>

\* The handler returns; authenticate.callback saves request.plant
water_end(c) ==
    /\ conn[c].pc = "end"
    /\ plant' = [plant EXCEPT ![conn[c].user] = conn[c].own]
    /\ conn' = [conn EXCEPT ![c] = [Idle EXCEPT !.served = conn[c].served]]
    /\ Handled("visit_plant_water", conn[c].user,
               Response("REDIRECT", "/app/visit/user_id"),
               [NoArgs EXCEPT !.target = conn[c].target])
    /\ UNCHANGED <<now, inventory, session, inbox, certs, grants, waterlog, built, cache, kept, password, asked, drafts>>

----------------------------------------------------------------------------
(* The environment *)

\* Time passes between requests
Tick ==
    /\ now < MaxTime
    /\ now' = now + 1
    /\ UNCHANGED <<plant, inventory, session, inbox, certs, conn, grants, waterlog, built, cache, kept, password, asked, drafts, last>>

DefaultName == <<"x">>

InitCerts == (1 :> "u1") @@ (2 :> "u1") @@ (3 :> "u2") @@ (4 :> "u3")

InitCommon ==
    /\ now = 0
    /\ session = [u \in Users |-> NoSession]
    /\ inbox = <<>>
    /\ certs = InitCerts
    /\ conn = [c \in Conns |-> Idle]
    /\ grants = {}
    /\ waterlog = [pr \in Users \X Users |-> <<>>]
    /\ last = NoRequest
    /\ built = registry
    /\ drafts = {}
    /\ cache = <<>>
    /\ kept = <<>>
    /\ password = [u \in Users |-> <<>>]
    /\ asked = [u \in Users |-> NoRequest]

WithCoins(n) == [EmptyInventory EXCEPT ![coin.item_id] = n]

----------------------------------------------------------------------------
(* Inputs of the requests *)

PurchaseQueries ==
    {<<>>, <<"y">>, <<"y", "e", "s">>, <<"Y">>, <<" ", "Y", "E", "S", " ">>,
     <<"n">>, <<"y", "y">>}

HarvestQueries(nm) ==
    {<<>>, GoodbyePhrase(nm), <<" ">> \o GoodbyePhrase(nm) \o <<" ">>,
     GoodbyePhrase(strip(nm)), lower(GoodbyePhrase(nm)), <<"n", "o">>}

LongName == repeat("a", NameMax - 1) \o <<" ", "b">>

NameQueries == {<<>>, <<"b">>, <<"b", " ">>, <<" ", "b">>, LongName}

DeleteQueries ==
    {<<>>, Confirm, <<"C", "O", "N", "F", "I", "R", "M">>, <<" ">> \o Confirm, <<"n", "o">>}

RECURSIVE SumOver(_, _)
SumOver(f, S) ==
    IF S = {} THEN 0
    ELSE LET x == CHOOSE y \in S : TRUE IN f[x] + SumOver(f, S \ {x})

\* Petals of all colours in the inventory of u
PetalCount(u) == SumOver([c \in DOMAIN petals |-> inventory[u][petals[c].item_id]],
                         DOMAIN petals)

\* Item ids a purchase may name: every registered id, and one below and above
PurchaseIds == 0..(Len(registry) + 1)

----------------------------------------------------------------------------
(* Spec: user u1 tending its own plant *)

OwnGrowths == {0, 15, 16, 19, 20}

\* (updated_at, watered_at): fresh, a tick from death, dead
OwnClocks == {<<0, 0>>, <<0, 0 - DeathTicks>>, <<0, 0 - DeathTicks - 1>>}

Init ==
    /\ InitCommon
    /\ \E g \in OwnGrowths, ck \in OwnClocks :
          plant = [u \in Users |->
                     IF u = "u1" THEN PlantRow(DefaultName, g, ck[1], ck[2], 0)
                     ELSE PlantRow(DefaultName, 0, 0, 0, 0)]
    /\ inventory = [u \in Users |-> EmptyInventory]

Next ==
    \/ Tick
    \/ PetalCount("u1") < MaxPetals /\ search("u1")
    \/ \E path \in HarvestPaths :
          \E q \in HarvestQueries(plant["u1"].name) : harvest("u1", path, q)
    \/ \E q \in NameQueries : name("u1", q)

Spec == Init /\ [][Next]_vars

----------------------------------------------------------------------------
(* SpecStore: the store *)

InitCoins == {0, 19, 20, 95}

InitStore ==
    /\ InitCommon
    /\ plant = [u \in Users |-> PlantRow(DefaultName, 0, 0, 0, 0)]
    /\ \E n \in InitCoins :
          inventory = [u \in Users |-> IF u = "u1" THEN WithCoins(n) ELSE WithCoins(0)]

NextStore ==
    \/ Tick
    \/ \E u \in {"u1", "u2"}, i \in PurchaseIds, q \in PurchaseQueries :
          store_purchase(u, i, q)

SpecStore == InitStore /\ [][NextStore]_vars

----------------------------------------------------------------------------
(* SpecRegistry: items.py while it is imported, before any request *)

\* Items constructed before the model stops constructing more
MaxItems == 3

ItemPrices == {0, 20}

ItemNames == {<<"coin">>, <<"postcard">>}

\* `registry: Dict[int, Item] = {}`, and the store as it is before the
\* first request
InitRegistry ==
    /\ built = <<>>
    /\ now = 0
    /\ plant = [u \in Users |-> PlantRow(DefaultName, 0, 0, 0, 0)]
    /\ inventory = [u \in Users |-> EmptyInventory]
    /\ session = [u \in Users |-> NoSession]
    /\ inbox = <<>>
    /\ certs = InitCerts
    /\ conn = [c \in Conns |-> Idle]
    /\ grants = {}
    /\ waterlog = [pr \in Users \X Users |-> <<>>]
    /\ last = NoRequest
    /\ drafts = {}
    /\ cache = <<>>
    /\ kept = <<>>
    /\ password = [u \in Users |-> <<>>]
    /\ asked = [u \in Users |-> NoRequest]

\* One statement `x = Item(price=..., name=..., for_sale=...)` of the module
Construct(price, item_name, for_sale) ==
    /\ Cardinality(DOMAIN built) < MaxItems
    /\ built' = Item(built, price, item_name, for_sale)
    /\ UNCHANGED <<now, plant, inventory, session, inbox, certs, conn, grants,
                   waterlog, last, drafts, cache, kept, password, asked>>

NextRegistry ==
    \E price \in ItemPrices, item_name \in ItemNames, for_sale \in BOOLEAN :
       Construct(price, item_name, for_sale)

SpecRegistry == InitRegistry /\ [][NextRegistry]_vars

----------------------------------------------------------------------------
(* SpecBoost: u1, holding one fertilizer, fertilizing and looking at its
   plant at arbitrary times until the boost has run out *)

\* The clock stops two ticks after a boost applied at the start has expired
BoostHorizon == BoostTicks + 2

\* Time passes between requests, up to the horizon
Elapse ==
    /\ now < BoostHorizon
    /\ now' = now + 1
    /\ UNCHANGED <<plant, inventory, session, inbox, certs, conn, grants, waterlog,
                   built, cache, kept, password, asked, drafts, last>>

InitBoost ==
    /\ InitCommon
    /\ plant = [u \in Users |-> PlantRow(DefaultName, 0, 0, 0, 0)]
    /\ inventory = [u \in Users |->
                      IF u = "u1" THEN add_item(EmptyInventory, fertilizer, 1)
                      ELSE EmptyInventory]

NextBoost ==
    \/ Elapse
    \/ fertilize("u1")
    \/ info("u1")
    \/ plant_page("u1")

SpecBoost == InitBoost /\ [][NextBoost]_vars

----------------------------------------------------------------------------
(* SpecCerts: every user deleting certificates *)

\* Certificate rows at the start: who owns the certificates 1..4
CertRows ==
    {InitCerts,
     (1 :> "u1") @@ (2 :> "u1") @@ (3 :> "u1") @@ (4 :> "u2"),
     (1 :> "u1") @@ (2 :> "u2") @@ (3 :> "u2") @@ (4 :> NoUser)}

\* Certificate ids a delete may name: the four on file and one never issued
CertDeleteIds == 0..4

CertDeleteQueries == {<<>>, Confirm, <<"n", "o">>}

InitCertsSpec ==
    /\ now = 0
    /\ session = [u \in Users |-> NoSession]
    /\ inbox = <<>>
    /\ certs \in CertRows
    /\ conn = [c \in Conns |-> Idle]
    /\ grants = {}
    /\ waterlog = [pr \in Users \X Users |-> <<>>]
    /\ last = NoRequest
    /\ built = registry
    /\ drafts = {}
    /\ cache = <<>>
    /\ kept = <<>>
    /\ password = [u \in Users |-> <<>>]
    /\ asked = [u \in Users |-> NoRequest]
    /\ plant = [u \in Users |-> PlantRow(DefaultName, 0, 0, 0, 0)]
    /\ inventory = [u \in Users |-> EmptyInventory]

NextCerts ==
    \E u \in Users, c \in CertIds, id \in CertDeleteIds, q \in CertDeleteQueries :
       settings_certificates_delete(u, c, id, q)

SpecCerts == InitCertsSpec /\ [][NextCerts]_vars

----------------------------------------------------------------------------
(* SpecPassword: u1 and u2 changing their passwords, u1 looking at its plant
   in between *)

PasswordQueries == {<<>>, <<"p">>, <<"q">>}

InitPassword ==
    /\ InitCommon
    /\ plant = [u \in Users |-> PlantRow(DefaultName, 0, 0, 0, 0)]
    /\ inventory = [u \in Users |-> EmptyInventory]

NextPassword ==
    \/ \E u \in {"u1", "u2"}, q \in PasswordQueries : settings_password(u, q)
    \/ plant_page("u1")

SpecPassword == InitPassword /\ [][NextPassword]_vars

----------------------------------------------------------------------------
(* SpecSession: identity 1 storing a value in its session and coming back
   after requests of other identities, one more than the cache holds in all.
   The clock stands still, so the refresh of authenticate changes no plant. *)

\* The identity watched, and the others in the order of their first request
Watched == 1

Others == 2..(maxsize + 1)

\* Whether identity 1 came back: it holds the most recent entry and others
\* were served since the cache was empty
CameBack == Len(cache) > 1 /\ cache[Len(cache)].key = Watched

\* The other identity due next: each makes its one request, in order
NextOther ==
    IF cache = <<>> THEN 0
    ELSE IF cache[Len(cache)].key = Watched THEN Watched + 1
    ELSE cache[Len(cache)].key + 1

InitSession ==
    /\ InitCommon
    /\ plant = [u \in Users |-> PlantRow(DefaultName, 0, 0, 0, 0)]
    /\ inventory = [u \in Users |-> EmptyInventory]

NextSession ==
    \/ \E key \in SessionKeys :
          /\ cache = <<>>
          /\ callback(Watched, key, IF key = "alert" THEN "a" ELSE <<"a">>)
    \/ /\ cache # <<>>
       /\ ~CameBack
       /\ NextOther \in Others
       /\ callback(NextOther, "none", "")
    \/ /\ cache # <<>>
       /\ ~CameBack
       /\ callback(Watched, "none", "")

SpecSession == InitSession /\ [][NextSession]_vars

----------------------------------------------------------------------------
(* SpecVisit: user u1 visiting the garden *)

VisitGrowths == {0, 16, 19}

\* Route parameters user_id: the visitor itself, another user, and an id
\* no user has
UserIds == {"u1", "u2", NoUser}

InitVisit ==
    /\ InitCommon
    /\ \E s1 \in {0, 1}, g \in VisitGrowths, ck \in OwnClocks :
          plant = [u \in Users |->
                     CASE u = "u1" -> PlantRow(DefaultName, 0, 0, 0, s1)
                       [] u = "u2" -> PlantRow(DefaultName, g, ck[1], ck[2], 0)
                       [] OTHER    -> PlantRow(DefaultName, 0, 0, 0 - VisitTicks, 1)]
    /\ inventory = [u \in Users |-> EmptyInventory]

NextVisit ==
    \/ Tick
    \/ visit("u1")
    \/ \E t \in UserIds : visit_plant_water("u1", t)
    \/ \E t \in UserIds : PetalCount("u1") < MaxPetals /\ visit_plant_search("u1", t)

SpecVisit == InitVisit /\ [][NextVisit]_vars

----------------------------------------------------------------------------
(* SpecMail: user u1 writing postcards *)

LongSubject == repeat("a", SubjectMax + 1)

SubjectQueries == {<<>>, <<"h", "i">>, <<"y", "o">>, LongSubject}

InitPostcards == {0, 1, 2}

InitMail ==
    /\ InitCommon
    /\ plant = [u \in Users |-> PlantRow(DefaultName, 0, 0, 0, 0)]
    /\ \E n \in InitPostcards :
          inventory = [u \in Users |->
                         IF u = "u1" THEN add_item(EmptyInventory, postcard, n)
                         ELSE EmptyInventory]

NextMail ==
    \/ Tick
    \/ \E t \in UserIds, q \in SubjectQueries : visit_plant_postcard_subject("u1", t, q)
    \/ \E t \in UserIds : visit_plant_postcard_send("u1", t)

SpecMail == InitMail /\ [][NextMail]_vars

----------------------------------------------------------------------------
(* SpecConfirm: user u1 and the requests that ask for a confirmation *)

ConfirmGrowths == {16, 20}

\* Certificate ids a delete may name: none on file, the two of u1, one of
\* another user
DeleteIds == 0..3

InitConfirm ==
    /\ InitCommon
    /\ \E g \in ConfirmGrowths, ck \in {<<0, 0>>, <<0, 0 - DeathTicks - 1>>} :
          plant = [u \in Users |->
                     IF u = "u1" THEN PlantRow(DefaultName, g, ck[1], ck[2], 0)
                     ELSE PlantRow(DefaultName, 0, 0, 0, 0)]
    /\ inventory = [u \in Users |-> IF u = "u1" THEN WithCoins(20) ELSE EmptyInventory]

NextConfirm ==
    \/ Tick
    \/ \E i \in {fertilizer.item_id, postcard.item_id}, q \in PurchaseQueries :
          store_purchase("u1", i, q)
    \/ \E path \in HarvestPaths :
          \E q \in HarvestQueries(plant["u1"].name) : harvest("u1", path, q)
    \/ \E c \in CertIds, id \in DeleteIds, q \in DeleteQueries :
          settings_certificates_delete("u1", c, id, q)

SpecConfirm == InitConfirm /\ [][NextConfirm]_vars

----------------------------------------------------------------------------
(* SpecRace: u1 and u3 watering the plant of u2 over two connections *)

InitRace ==
    /\ InitCommon
    /\ plant = [u \in Users |-> PlantRow(DefaultName, 0, 0, 0, 0)]
    /\ inventory = [u \in Users |-> EmptyInventory]

NextRace ==
    \/ Tick
    \/ \E c \in Conns, u \in {"u1", "u3"} : water_begin(c, u, "u2")
    \/ \E c \in Conns : water_refresh(c)
    \/ \E c \in Conns : water_water(c)
    \/ \E c \in Conns : water_save(c)
    \/ \E c \in Conns : water_end(c)

SpecRace == InitRace /\ [][NextRace]_vars

----------------------------------------------------------------------------
(* SpecLife: u1 tending its plant through life and death, u2 visiting it.
   To keep the state space small, the owner's requests that do nothing to
   the plant but refresh it (plant page, shake, name) are made while the
   visitor holds no certificate. *)

\* (growth, updated_at, watered_at) of the plant of u1: about to flower and
\* a tick from death
LifeRow == <<15, 0, 0 - DeathTicks>>

\* The visitor's own plant died long ago
LifeVisitorRow == PlantRow(DefaultName, 0, 0, 0 - DeathTicks - 1, 0)

\* The certificates on file, with and without the one of the visitor u2
LifeCerts == {InitCerts, [InitCerts EXCEPT ![3] = NoUser]}

InitLife ==
    /\ now = 0
    /\ session = [u \in Users |-> NoSession]
    /\ inbox = <<>>
    /\ certs \in LifeCerts
    /\ conn = [c \in Conns |-> Idle]
    /\ grants = {}
    /\ waterlog = [pr \in Users \X Users |-> <<>>]
    /\ last = NoRequest
    /\ built = registry
    /\ drafts = {}
    /\ cache = <<>>
    /\ kept = <<>>
    /\ password = [u \in Users |-> <<>>]
    /\ asked = [u \in Users |-> NoRequest]
    /\ plant = [u \in Users |->
                  IF u = "u1"
                  THEN PlantRow(DefaultName, LifeRow[1], LifeRow[2], LifeRow[3], 0)
                  ELSE LifeVisitorRow]
    /\ inventory = [u \in Users |->
                      IF u = "u1" THEN add_item(EmptyInventory, fertilizer, 1)
                      ELSE EmptyInventory]

NextLife ==
    \/ Tick
    \/ ~LoggedIn("u2") /\ plant_page("u1")
    \/ water_own("u1")
    \/ fertilize("u1")
    \/ /\ ~LoggedIn("u2")
       /\ get_item_quantity(inventory["u1"], coin) < MaxCoins
       /\ shake("u1")
    \/ PetalCount("u1") < MaxPetals /\ search("u1")
    \/ ~LoggedIn("u2") /\ name("u1", <<"b">>)
    \/ \E path \in HarvestPaths : harvest("u1", path, GoodbyePhrase(plant["u1"].name))
    \/ visit_plant("u2", "u1")
    \/ visit_plant_water("u2", "u1")
    \/ PetalCount("u2") < MaxPetals /\ visit_plant_search("u2", "u1")

SpecLife == InitLife /\ [][NextLife]_vars

----------------------------------------------------------------------------
(* SpecLedger: u1, with coins for one fertilizer and one postcard, and u2,
   with nothing, buying, mailing and fertilizing; u1 shaking and picking *)

LedgerUsers == {"u1", "u2"}

\* Item ids bought: the two for sale and one not registered
LedgerIds == {fertilizer.item_id, postcard.item_id, 0}

\* u1 can pay for one fertilizer and one postcard, u2 for nothing
LedgerCoins == fertilizer.price + postcard.price

InitLedger ==
    /\ InitCommon
    /\ plant = [u \in Users |-> PlantRow(DefaultName, FloweringStage * GrowthPerStage, 0, 0, 0)]
    /\ inventory = [u \in Users |->
                      IF u = "u1" THEN WithCoins(LedgerCoins) ELSE EmptyInventory]

NextLedger ==
    \/ \E u \in LedgerUsers, i \in LedgerIds : store_purchase(u, i, <<"y">>)
    \/ visit_plant_postcard_subject("u1", "u2", <<"h", "i">>)
    \/ \E u \in LedgerUsers : visit_plant_postcard_send(u, "u2")
    \/ \E u \in LedgerUsers : fertilize(u)
    \/ get_item_quantity(inventory["u1"], coin) < MaxCoins /\ shake("u1")
    \/ PetalCount("u1") < MaxPetals /\ search("u1")

SpecLedger == InitLedger /\ [][NextLedger]_vars

----------------------------------------------------------------------------
(* SpecLookup: u1 naming items and users that may not exist *)

InitLookup ==
    /\ InitCommon
    /\ plant = [u \in Users |-> PlantRow(DefaultName, FloweringStage * GrowthPerStage, 0, 0, 0)]
    /\ inventory = [u \in Users |-> WithCoins(postcard.price)]

\* Item ids named: one below the registered ids, the postcard, one above
LookupItemIds == {0, postcard.item_id, Len(registry) + 1}

\* User ids named: another user, and an id no user has
LookupUserIds == {"u2", NoUser}

NextLookup ==
    \/ \E i \in LookupItemIds, q \in {<<>>, <<"y">>} : store_purchase("u1", i, q)
    \/ \E i \in LookupItemIds : view_item("u1", i)
    \/ \E t \in LookupUserIds : visit_plant("u1", t)
    \/ \E t \in LookupUserIds : visit_plant_water("u1", t)
    \/ \E t \in LookupUserIds :
          PetalCount("u1") < MaxPetals /\ visit_plant_search("u1", t)
    \/ \E t \in LookupUserIds : visit_plant_postcard_subject("u1", t, <<"h", "i">>)
    \/ \E t \in LookupUserIds : visit_plant_postcard_send("u1", t)

SpecLookup == InitLookup /\ [][NextLookup]_vars

----------------------------------------------------------------------------
(* Properties of the store (SpecStore) *)

CoinsOf(inv) == get_item_quantity(inv, coin)

\* The step is the store_purchase request that `last` records afterwards
IsPurchase ==
    /\ last'.op = "store_purchase"
    /\ store_purchase(last'.user, last'.item_id, last'.query)

\* C1: a confirmed purchase ('y' or 'yes') of a for-sale item of price P by a
\* buyer holding c coins: with c < P it is answered 'Insufficient funds' and
\* the buyer's inventory stays as it was; with c >= P the buyer is left with
\* exactly c - P coins and one more of the item.
C1_PurchaseCharges ==
    [][(/\ IsPurchase
        /\ last'.query \in {<<"y">>, <<"y", "e", "s">>}
        /\ last'.item_id \in ItemIds
        /\ registry[last'.item_id].for_sale)
       => LET u == last'.user
              i == last'.item_id
              P == registry[i].price
              c == CoinsOf(inventory[u])
          IN  IF c < P
              THEN /\ last'.resp = Response("BAD_REQUEST", "Insufficient funds")
                   /\ inventory'[u] = inventory[u]
              ELSE /\ CoinsOf(inventory'[u]) = c - P
                   /\ inventory'[u][i] = inventory[u][i] + 1
                   /\ \A j \in ItemIds \ {i, coin.item_id} :
                         inventory'[u][j] = inventory[u][j]
                   /\ last'.resp.status = "REDIRECT"]_vars

\* After two postcards were bought and paid, a bottle of fertilizer was
\* refused for lack of funds
C1_Witness ==
    /\ last.op = "store_purchase"
    /\ last.user = "u1"
    /\ last.query = <<"y", "e", "s">>
    /\ last.resp.meta = "Insufficient funds"
    /\ last.item_id = fertilizer.item_id
    /\ CoinsOf(inventory["u1"]) = 55
    /\ inventory["u1"][postcard.item_id] = 2

----------------------------------------------------------------------------
(* Properties of the requester's own plant (Spec) *)

IsSearch == last'.op = "search" /\ search(last'.user)

IsHarvest == last'.op = "harvest" /\ harvest(last'.user, last'.path, last'.query)

\* C3: a search on the requester's own plant that, after the refresh of the
\* request, is dead or not at stage 4 is answered BAD_REQUEST; no petal is
\* picked: inventory, session and the refreshed plant stay as they were.
C3_SearchRejected ==
    [][IsSearch =>
         LET u == last'.user
             p == refresh(plant[u], now)
         IN  (p.dead \/ p.stage # 4)
             => /\ last'.resp.status = "BAD_REQUEST"
                /\ inventory' = inventory
                /\ session' = session
                /\ plant'[u] = p]_vars

\* A dead plant at the flowering stage was searched and the search rejected
C3_Witness ==
    /\ last.op = "search"
    /\ last.resp.status = "BAD_REQUEST"
    /\ plant["u1"].dead
    /\ plant["u1"].stage = 4

\* C4: for a plant that is dead or at stage 5, under any name the name
\* action can set, harvest/confirm with the query 'Goodbye <plant name>'
\* harvests: generation + 1, stage 0, not dead, redirect to the epilogue.
C4_GoodbyeHarvests ==
    [][IsHarvest =>
         LET u == last'.user
             p == refresh(plant[u], now)
         IN  (/\ last'.path = "/app/plant/harvest/confirm"
              /\ last'.query = GoodbyePhrase(p.name)
              /\ (p.dead \/ p.stage = 5))
             => /\ plant'[u].generation = p.generation + 1
                /\ plant'[u].stage = 0
                /\ ~plant'[u].dead
                /\ last'.resp = Response("REDIRECT", "/app/epilog/1")]_vars

\* C5: a harvest request, with or without /confirm and with any query, on a
\* plant that after the refresh is neither dead nor at stage 5 is answered
\* BAD_REQUEST and the plant is saved as the refresh left it.
C5_HarvestRejected ==
    [][IsHarvest =>
         LET u == last'.user
             p == refresh(plant[u], now)
         IN  (~p.dead /\ p.stage # 5)
             => /\ last'.resp.status = "BAD_REQUEST"
                /\ plant'[u] = p]_vars

\* The right phrase was sent for a flowering plant and the harvest rejected
C5_Witness ==
    /\ last.op = "harvest"
    /\ last.resp.status = "BAD_REQUEST"
    /\ last.path = "/app/plant/harvest/confirm"
    /\ last.query = GoodbyePhrase(plant["u1"].name)
    /\ plant["u1"].stage = 4
    /\ plant["u1"].generation = 1

IsName == last'.op = "name" /\ name(last'.user, last'.query)

\* C14: through name requests with any queries the plant's name never has
\* more than 40 characters; a name request with an empty query does nothing
\* beyond the refresh every request performs (plant, inventory and session
\* are as the refresh left them), and one with a non-empty query changes no
\* attribute of the refreshed plant other than the name.
C14_NameCapped ==
    /\ [](\A u \in Users : Len(plant[u].name) <= 40)
    /\ [][IsName =>
            LET u == last'.user
                p == refresh(plant[u], now)
            IN  IF last'.query = <<>>
                THEN /\ plant' = [plant EXCEPT ![u] = p]
                     /\ UNCHANGED <<inventory, session>>
                ELSE /\ plant' = [plant EXCEPT ![u] = [p EXCEPT !.name = plant'[u].name]]
                     /\ \A i \in 1..Len(plant'[u].name) :
                           plant'[u].name[i] = last'.query[i]]_vars

\* A name of 41 characters was sent and the plant bears its first 40
C14_Witness ==
    /\ last.op = "name"
    /\ Len(last.query) = 41
    /\ Len(plant["u1"].name) = 40
    /\ plant["u1"].name = SubSeq(last.query, 1, 40)

----------------------------------------------------------------------------
(* Properties of visits (SpecVisit) *)

IsVisit == last'.op = "visit" /\ visit(last'.user)

IsVisitWater ==
    /\ last'.op = "visit_plant_water"
    /\ visit_plant_water(last'.user, last'.target)

IsVisitSearch ==
    /\ last'.op = "visit_plant_search"
    /\ visit_plant_search(last'.user, last'.target)

\* The response of a remote action that went through
VisitDone == Response("REDIRECT", "/app/visit/user_id")

\* C2: when a remote search grants a petal, the target plant as refreshed
\* for the request is alive and at the flowering stage; every other remote
\* search is turned away and leaves the actor's inventory and the target
\* owner's score as they were.
C2_RemoteSearchFlowering ==
    [][IsVisitSearch =>
         LET u == last'.user
             t == last'.target
         IN  IF inventory'[u] # inventory[u]
             THEN /\ t \in Users
                  /\ ~refresh(plant[t], now).dead
                  /\ refresh(plant[t], now).stage = 4
             ELSE /\ last'.resp # VisitDone
                  /\ t \in Users => plant'[t].score = plant[t].score]_vars

\* C8: the list the visit request produces for viewer V holds exactly the
\* active plants with score > 0, watered within the last 8 days, that are
\* not V's own.
C8_VisitListing ==
    [][IsVisit =>
         LET V == last'.user
         IN  {last'.listing[i] : i \in DOMAIN last'.listing}
             = {o \in Users : /\ plant[o].score > 0
                               /\ plant[o].watered_at >= now - VisitDays * TicksPerDay
                               /\ o # V}]_vars

\* The step is a remote watering by A of the plant of T # A
RemoteWater(A, T) ==
    /\ IsVisitWater
    /\ last'.user = A
    /\ last'.target = T
    /\ T \in Users \ {A}

Gain(T) == plant'[T].score - plant[T].score

\* The previous remote watering of T by A lies less than a day back
WateredWithinDay(A, T) ==
    /\ waterlog[<<A, T>>] # <<>>
    /\ now - waterlog[<<A, T>>][1].at < TicksPerDay

\* A reward of A for T lies less than a day back
GrantedWithinDay(A, T) ==
    \E g \in grants : g.actor = A /\ g.target = T /\ now - g.at < TicksPerDay

\* C9 as stated: of any two sequential remote waterings by A of T's plant
\* within one day window, the pair raises T's score by the reward exactly
\* once and the second one grants nothing.
C9_ExactlyOnce ==
    [][\A A \in Users, T \in Users :
          (RemoteWater(A, T) /\ WateredWithinDay(A, T))
          => /\ waterlog[<<A, T>>][1].gain + Gain(T) = RewardScore
             /\ Gain(T) = 0]_vars

\* C9, amended: two sequential remote waterings by A of T's plant within one
\* day window raise T's score by the reward at most once, and after a
\* rewarded one the next grants nothing; a remote watering is rewarded
\* exactly when T's plant is alive after its refresh and A was not rewarded
\* for T within the preceding day window.
C9_AtMostOnce ==
    [][\A A \in Users, T \in Users :
          RemoteWater(A, T)
          => /\ Gain(T) \in {0, RewardScore}
             /\ Gain(T) = RewardScore
                  <=> (~refresh(plant[T], now).dead /\ ~GrantedWithinDay(A, T))
             /\ WateredWithinDay(A, T)
                  => /\ waterlog[<<A, T>>][1].gain + Gain(T) <= RewardScore
                     /\ waterlog[<<A, T>>][1].gain = RewardScore => Gain(T) = 0]_vars

\* u1 watered the living plant of u2 a second time within the day of its
\* rewarded watering and the score rose once only
C9_Witness ==
    /\ last.op = "visit_plant_water"
    /\ last.target = "u2"
    /\ ~plant["u2"].dead
    /\ waterlog[<<"u1", "u2">>] = <<[at |-> now, gain |-> 0]>>
    /\ \E g \in grants : g.actor = "u1" /\ g.target = "u2" /\ g.at = now - 1
    /\ Cardinality(grants) = 1
    /\ plant["u2"].watered_by = {[user |-> "u1", at |-> now - 1]}

----------------------------------------------------------------------------
(* Properties of postcards (SpecMail) *)

IsSend ==
    /\ last'.op = "visit_plant_postcard_send"
    /\ visit_plant_postcard_send(last'.user, last'.target)

Postcards(inv) == get_item_quantity(inv, postcard)

\* What a send that went through leaves: one postcard less, one message more,
\* to T under the subject of the session, and no subject in the session
Mailed(u, T) ==
    /\ Postcards(inventory'[u]) = Postcards(inventory[u]) - 1
    /\ Len(inbox') = Len(inbox) + 1
    /\ SubSeq(inbox', 1, Len(inbox)) = inbox
    /\ inbox'[Len(inbox')].user_to = T
    /\ inbox'[Len(inbox')].user_from = u
    /\ inbox'[Len(inbox')].subject = session[u].postcard_subject
    /\ session'[u].postcard_subject = <<>>

\* What a send that failed leaves: postcards, inbox and subject as they were
NotMailed(u) ==
    /\ inventory' = inventory
    /\ inbox' = inbox
    /\ session'[u].postcard_subject = session[u].postcard_subject

\* C7 as stated: a postcard-send request creates a message if and only if
\* the session holds a non-empty subject and the actor holds a postcard; on
\* success one postcard is taken, one message to the target is created
\* under that subject and the subject leaves the session; on failure
\* postcards, inbox and subject stay as they were.
C7_SendIff ==
    [][IsSend =>
         LET u == last'.user
         IN  IF session[u].postcard_subject # <<>> /\ Postcards(inventory[u]) >= 1
             THEN Mailed(u, last'.target)
             ELSE NotMailed(u)]_vars

\* C7, amended: the same, for a request whose user_id names an existing
\* user; a request naming no user is answered NOT_FOUND and changes nothing.
C7_SendIffTargetExists ==
    [][IsSend =>
         LET u == last'.user
         IN  IF /\ last'.target \in Users
                /\ session[u].postcard_subject # <<>>
                /\ Postcards(inventory[u]) >= 1
             THEN Mailed(u, last'.target)
             ELSE NotMailed(u)]_vars

\* u1 mailed its last postcard to u2 and a further send was refused although
\* a new subject had been entered
C7_Witness ==
    /\ last.op = "visit_plant_postcard_send"
    /\ last.target = "u2"
    /\ last.resp.status = "BAD_REQUEST"
    /\ session["u1"].postcard_subject = <<"y", "o">>
    /\ Postcards(inventory["u1"]) = 0
    /\ inbox = <<[user_from |-> "u1", user_to |-> "u2", subject |-> <<"h", "i">>,
                  body |-> "Hello world!"]>>

----------------------------------------------------------------------------
(* Properties of the confirmations (SpecConfirm) *)

IsDelete ==
    /\ last'.op = "settings_certificates_delete"
    /\ \E c \in CertIds :
          settings_certificates_delete(last'.user, c, last'.cert, last'.query)

\* The request did nothing but the refresh of the requester's plant
NothingDone(u) ==
    /\ plant' = [plant EXCEPT ![u] = refresh(@, now)]
    /\ inventory' = inventory
    /\ certs' = certs

\* An empty query performs nothing, and the response is a prompt or the
\* confirmation page unless the request was turned away
EmptyQueryPrompts ==
    (/\ IsPurchase \/ IsHarvest \/ IsDelete
     /\ last'.query = <<>>)
    => /\ NothingDone(last'.user)
       /\ last'.resp.status \in {"INPUT", "SUCCESS", "BAD_REQUEST"}
       /\ last'.resp.status = "SUCCESS" => last'.op = "harvest"

----------------------------------------------------------------------------
(* Properties of interleaved remote waterings (SpecRace) *)

----------------------------------------------------------------------------
(* Properties of life and death (SpecLife) *)

\* The step is a harvest request of u that went through
Harvested(u) ==
    /\ IsHarvest
    /\ last'.user = u
    /\ last'.resp = Response("REDIRECT", "/app/epilog/1")

\* C11: a dead plant stays dead through every plant page, water (by the
\* owner or by a visitor), fertilize, shake, search, name and visit request;
\* dead turns false only in a request that harvests that plant.
C11_DeadUntilHarvest ==
    [][\A u \in Users :
          (plant[u].dead /\ ~plant'[u].dead) => Harvested(u)]_vars

\* A visitor watered a dead plant: the request went through and the plant,
\* never harvested, is still dead
C11_Witness ==
    /\ last.op = "visit_plant_water"
    /\ last.target = "u1"
    /\ last.resp = VisitDone
    /\ plant["u1"].dead
    /\ plant["u1"].generation = 1

\* C16: between two consecutive observations of a plant its stage does not
\* go down unless the request in between harvested it, and then the stage
\* is 0 right after the harvest.
C16_StageMonotone ==
    [][\A u \in Users :
          /\ plant'[u].stage < plant[u].stage => Harvested(u)
          /\ Harvested(u) => plant'[u].stage = 0]_vars

\* The plant grew from mature to flowering, died, and was harvested at the
\* flowering stage: it is a seed again
C16_Witness ==
    /\ last.op = "harvest"
    /\ last.resp = Response("REDIRECT", "/app/epilog/1")
    /\ plant["u1"].generation = 2
    /\ plant["u1"].stage = 0
    /\ plant["u1"].score >= FloweringStage

----------------------------------------------------------------------------
(* Properties of the inventory ledger (SpecLedger) *)

IsFertilize == last'.op = "fertilize" /\ fertilize(last'.user)

\* An upper bound of what the request of this step adds to slot (u, i): one
\* of the item bought, one petal picked, the coins a shake may drop
AddedBy(u, i) ==
    IF last'.user # u THEN 0
    ELSE CASE last'.op = "store_purchase" /\ last'.item_id = i -> 1
           [] last'.op = "search" /\ i \in {petals[c].item_id : c \in DOMAIN petals} -> 1
           [] last'.op = "shake" /\ i = coin.item_id -> 1
           [] OTHER -> 0

\* C12: through purchases, postcard sends, fertilize, shake and search
\* requests of any users every quantity stays >= 0 and no request raises a
\* slot by more than it adds to it (so a slot never exceeds the total added
\* to it); a removal of q from a slot holding less than q (coins of a
\* purchase, the postcard of a send, the fertilizer of a fertilize) deducts
\* nothing.
C12_LedgerBounds ==
    /\ [](\A u \in Users, i \in ItemIds : inventory[u][i] >= 0)
    /\ [][/\ \A u \in Users, i \in ItemIds :
                inventory'[u][i] <= inventory[u][i] + AddedBy(u, i)
          /\ (/\ IsPurchase
              /\ last'.item_id \in ItemIds
              /\ CoinsOf(inventory[last'.user]) < registry[last'.item_id].price)
             => inventory' = inventory
          /\ (IsSend /\ Postcards(inventory[last'.user]) < 1)
             => inventory' = inventory
          /\ (IsFertilize /\ get_item_quantity(inventory[last'.user], fertilizer) < 1)
             => inventory' = inventory]_vars

\* u1 spent all its coins on a fertilizer and a postcard, used both, and was
\* then refused a further postcard; u2, who never held a coin, was refused too
C12_Witness ==
    /\ last.op = "store_purchase"
    /\ last.resp.meta = "Insufficient funds"
    /\ CoinsOf(inventory["u1"]) = 0
    /\ Postcards(inventory["u1"]) = 0
    /\ get_item_quantity(inventory["u1"], fertilizer) = 0
    /\ Len(inbox) = 1
    /\ plant["u1"].fertilized_at # {}

----------------------------------------------------------------------------
(* Properties of lookups (SpecLookup) *)

\* The request of this step names an item id the registry does not hold
AbsentItem ==
    /\ last'.op \in {"store_purchase", "view_item"}
    /\ last'.item_id \notin ItemIds

\* The request of this step names a user id no user has
AbsentUser ==
    /\ last'.op \in {"visit_plant", "visit_plant_water", "visit_plant_search",
                      "visit_plant_postcard_subject", "visit_plant_postcard_send"}
    /\ last'.target \notin Users

\* C13: a request naming an item id absent from the registry (store
\* purchase, item view) or a user id no user has (the visit routes) is
\* answered with an error response, BAD_REQUEST or NOT_FOUND, never ends in
\* an exception, and leaves inventories, sessions, inbox and certificates
\* as they were.
C13_AbsentIdsRejected ==
    [][(AbsentItem \/ AbsentUser)
       => /\ last'.resp.status \in {"BAD_REQUEST", "NOT_FOUND"}
          /\ UNCHANGED <<inventory, session, inbox, certs, drafts>>]_vars

----------------------------------------------------------------------------
(* Properties of remote actions on one's own plant and of the order of
   refresh, test and save (SpecVisit) *)

\* C19: a visit-water or visit-search request whose target is the requester
\* performs no action on the plant and grants no score or petal: it answers
\* with a redirect to /app/plant, the plant is as the refresh of the request
\* left it, and the inventory, the rewards granted and the waterings
\* recorded are as they were.
C19_SelfVisitInert ==
    [][((IsVisitWater \/ IsVisitSearch) /\ last'.target = last'.user) =>
         LET u == last'.user
         IN  /\ last'.resp = Response("REDIRECT", "/app/plant")
             /\ plant' = [plant EXCEPT ![u] = refresh(@, now)]
             /\ plant'[u].score = plant[u].score
             /\ UNCHANGED <<inventory, grants, waterlog, session>>]_vars

\* u1 asked to water its own plant through the visit route and was sent to
\* its plant page
C19_Witness ==
    /\ last.op = "visit_plant_water"
    /\ last.user = "u1"
    /\ last.target = "u1"
    /\ last.resp = Response("REDIRECT", "/app/plant")
    /\ grants = {}

\* C17: a remote request reads the derived fields of the target plant, and
\* acts on it, only after refreshing it: a remote search is turned away
\* exactly when the target as refreshed for the request is dead or not
\* flowering, the petal is picked from the refreshed row, a remote watering
\* waters the refreshed row, and the requester's own plant is saved as
\* refreshed.
C17_RefreshBeforeRead ==
    [][((IsVisitWater \/ IsVisitSearch) /\ last'.target \in Users \ {last'.user}) =>
         LET u == last'.user
             t == last'.target
             p == refresh(plant[t], now)
         IN  /\ plant'[u] = refresh(plant[u], now)
             /\ IsVisitWater => plant'[t] = water(p, t, WaterActor(u), now)
             /\ IsVisitSearch =>
                  IF p.dead \/ p.stage # 4
                  THEN /\ last'.resp.status = "BAD_REQUEST"
                       /\ inventory'[u] = inventory[u]
                  ELSE /\ last'.resp = VisitDone
                       /\ plant'[t] = pick_petal(p, t, u)]_vars

----------------------------------------------------------------------------
(* Properties of the postcard draft (SpecMail) *)

\* C20: the subject of every postcard delivered to a target T is one the
\* sender entered on T's own subject route; a subject drafted while
\* addressing another target is never delivered to T.
C20_SubjectOfTarget ==
    \A i \in DOMAIN inbox :
       \E d \in drafts : /\ d.user = inbox[i].user_from
                         /\ d.target = inbox[i].user_to
                         /\ d.subject = inbox[i].subject

----------------------------------------------------------------------------
(* Properties of the item registry (SpecRegistry) *)

\* C18: after any number of Item constructions the keys of the registry are
\* exactly 1..n, the ids are pairwise distinct and registry[i].item_id = i
\* for every key i; a construction adds the one key n + 1, in construction
\* order, and leaves every entry there was as it was.
C18_RegistryAppendOnly ==
    /\ [](LET n == Cardinality(DOMAIN built)
          IN  /\ DOMAIN built = 1..n
              /\ \A i \in DOMAIN built : built[i].item_id = i
              /\ \A i, j \in DOMAIN built :
                    i # j => built[i].item_id # built[j].item_id)
    /\ [][built' # built =>
            /\ DOMAIN built' = DOMAIN built \cup {Cardinality(DOMAIN built) + 1}
            /\ \A i \in DOMAIN built : built'[i] = built[i]]_vars

\* Three items were constructed, the second and third with the same
\* arguments, and they sit under the keys 2 and 3
C18_Witness ==
    /\ Cardinality(DOMAIN built) = 3
    /\ built[1].name = <<"coin">>
    /\ built[2].name = <<"postcard">>
    /\ [built[3] EXCEPT !.item_id = 2] = built[2]

----------------------------------------------------------------------------
(* Properties of the fertilizer boost (SpecBoost) *)

IsInfo == last'.op = "info" /\ info(last'.user)

IsPlantPage == last'.op = "plant" /\ plant_page(last'.user)

\* The ticks of [from, to) at which a boost applied at one of `applied` runs
TicksBefore(applied, from, to) ==
    {k \in from..(to - 1) : \E a \in applied : k < a + 3 * TicksPerDay}

\* C15: whenever a request refreshes a living plant, the growth added since
\* the previous refresh is the boosted rate for each tick before
\* applied_at + 3 days and the baseline rate for each tick from then on,
\* also when the one refresh spans the expiry; from the expiry on the
\* growth rate the plant carries and reports is the baseline, and a boost
\* is applied only by a fertilize request, from the time of that request.
C15_BoostUntilExpiry ==
    [][(IsFertilize \/ IsInfo \/ IsPlantPage) =>
         LET u  == last'.user
             p  == plant[u]
             q  == plant'[u]
             nb == Cardinality(TicksBefore(p.fertilized_at, p.updated_at, now))
             applied == IsFertilize /\ inventory'[u] # inventory[u]
         IN  ~p.dead =>
               /\ q.growth = Min(GrowthCap, p.growth + nb * RateBoost
                                            + (now - p.updated_at - nb) * RateBase)
               /\ q.updated_at = now
               /\ applied => q.fertilized_at = {now} /\ q.growth_rate = RateBoost
               /\ ~applied =>
                    /\ q.fertilized_at \subseteq p.fertilized_at
                    /\ q.growth_rate =
                         IF TicksBefore(p.fertilized_at, now, now + 1) # {}
                         THEN RateBoost ELSE RateBase
               /\ IsInfo => session'[u].alert[4] = q.growth_rate]_vars

\* u1 fertilized at the start and asked for nothing until two ticks after
\* the expiry: the one refresh of the info request gave the boosted rate for
\* the three days and the baseline for the two ticks, and reports the baseline
C15_Witness ==
    /\ last.op = "info"
    /\ now = BoostTicks + 2
    /\ get_item_quantity(inventory["u1"], fertilizer) = 0
    /\ plant["u1"].updated_at = now
    /\ plant["u1"].growth = BoostTicks * RateBoost + 2 * RateBase
    /\ plant["u1"].growth_rate = RateBase
    /\ plant["u1"].fertilized_at = {}

----------------------------------------------------------------------------
(* Properties of certificate deletion (SpecCerts) *)

\* The step is a delete request of u authenticated with certificate c
DeleteWith(u, c) ==
    /\ last'.op = "settings_certificates_delete"
    /\ last'.user = u
    /\ settings_certificates_delete(u, c, last'.cert, last'.query)

\* C23: through delete requests by all users, a request never deletes the
\* certificate it is authenticated with, every certificate a request deletes
\* belonged to the requester, and a user who can log in can still log in
\* after any request.
C23_OwnOtherCertOnly ==
    [][/\ \A u \in Users, c \in CertIds :
            DeleteWith(u, c) =>
               /\ certs'[c] = u
               /\ \A id \in CertIds :
                     certs'[id] # certs[id] => certs[id] = u /\ certs'[id] = NoUser
       /\ \A u \in Users : LoggedIn(u) => LoggedIn(u)']_vars

\* u1 has deleted two of its three certificates and was refused the deletion
\* of the one left, the one of the request
C23_Witness ==
    /\ last.op = "settings_certificates_delete"
    /\ last.user = "u1"
    /\ last.query = Confirm
    /\ last.resp = Response("BAD_REQUEST", "You cannot delete your active certificate")
    /\ Cardinality({id \in CertIds : certs[id] = "u1"}) = 1
    /\ Cardinality({id \in CertIds : certs[id] = NoUser}) = 2
    /\ certs[last.cert] = "u1"

----------------------------------------------------------------------------
(* Properties of the password change (SpecPassword) *)

IsPassword == last'.op = "settings_password" /\ settings_password(last'.user, last'.query)

\* The latest settings_password request of u stored q as the pending password
StoredBefore(u, q) ==
    /\ asked[u].op = "settings_password"
    /\ asked[u].query = q
    /\ asked[u].resp = Response("SENSITIVE_INPUT", "Confirm your new password")

\* C22: a settings_password request sets the password only when its
\* query is not empty and equals the pending password the same user's
\* immediately preceding settings_password request stored, and then to that
\* query; no other request changes a password; after every
\* settings_password request the pending password is gone unless this
\* request stored its own query, so an empty or mismatching query leaves the
\* password as it was and the protocol starts again.
C22_ConfirmedTwice ==
    [][/\ ~IsPassword => password' = password
       /\ IsPassword =>
            LET u  == last'.user
                q  == last'.query
                ok == q # <<>> /\ StoredBefore(u, q)
            IN  /\ (last'.resp.status = "SUCCESS" \/ password' # password) =>
                      ok /\ password' = [password EXCEPT ![u] = q]
                /\ ~ok => password' = password
                /\ session'[u].new_password =
                      IF last'.resp = Response("SENSITIVE_INPUT", "Confirm your new password")
                      THEN q ELSE <<>>
                /\ (q = <<>> \/ (session[u].new_password # <<>> /\ ~ok)) =>
                      /\ password' = password
                      /\ session'[u].new_password = <<>>]_vars

\* u1 set the password p by entering it twice, then entered q and, to
\* confirm, p: the passwords did not match, the password is still p and
\* nothing is pending
C22_Witness ==
    /\ last.op = "settings_password"
    /\ last.user = "u1"
    /\ last.query = <<"p">>
    /\ last.resp = Response("BAD_REQUEST", "Passwords did not match!")
    /\ password["u1"] = <<"p">>
    /\ session["u1"].new_password = <<>>

----------------------------------------------------------------------------
(* Properties of the session (SpecSession) *)

\* C21: the session a request finds is the session the same identity's
\* previous request left, whatever other identities requested in between:
\* a value stored is still there at the identity's next request.
C21_SessionKept ==
    [][last'.op = "callback" =>
          load_session(cache, last'.user) =
             IF last'.user \in DOMAIN kept THEN kept[last'.user] ELSE NoSession]_vars

====
